---- MODULE Spec2Model ----
(***************************************************************************)
(* Road graph construction (road-graph.ts), nearest-node lookup and the    *)
(* graph driving state machine (graph-driving.ts) of Kinopticon.           *)
(*                                                                         *)
(* Numbers.  World coordinates and lengths are integers counted in tenths  *)
(* of a world unit (Unit = 10 per world unit).  segmentProgress is an      *)
(* integer counted in 1/ProgressDen.  Node positions and tick inputs are   *)
(* drawn so that every product and quotient the code forms is exact in     *)
(* these units (ExactStep below guards the ticks).  Distances are compared *)
(* through their squares, which orders them as Math.sqrt does.             *)
(*                                                                         *)
(* A JavaScript value that may be null/undefined is a sequence of length   *)
(* 0 (Null) or 1 (Some(v)).  A Map is the sequence of its entries in       *)
(* insertion order.  The ids `node-${n}` and `segment-${w}-${i}` are the   *)
(* tuples <<"node", n>> and <<"segment", w, i>>.                           *)
(***************************************************************************)
EXTENDS Integers, Sequences, FiniteSets, TLC

VARIABLES osmData, connectedNetwork, drivingState, controls, notification, query,
          ticks, peer

vars == <<osmData, connectedNetwork, drivingState, controls, notification, query, ticks,
          peer>>

----------------------------------------------------------------------------
(* Bounds of the enumerated inputs *)

MaxWays == 2

MaxWayLen == 2

MaxTicks == 2

----------------------------------------------------------------------------
(* Units and small helpers *)

numPoints == 5

Unit == 2 * numPoints

ProgressDen == Unit * Unit

Null == <<>>

Some(v) == <<v>>

Abs(a) == IF a < 0 THEN 0 - a ELSE a

Max(a, b) == IF a >= b THEN a ELSE b

Min(a, b) == IF a <= b THEN a ELSE b

\* Math.sqrt on the squares the inputs produce
Sqrt(n) == CHOOSE r \in 0..n : r * r = n

\* Math.round of a coordinate: nearest integer world unit, halves upward
MathRound(v) == (v + (Unit \div 2)) \div Unit

\* Math.ceil(a / b) for a >= 0, b > 0
MathCeilDiv(a, b) == (a + b - 1) \div b

NodeIdOf(osmNodeId) == <<"node", osmNodeId>>

SegmentIdOf(wayId, i) == <<"segment", wayId, i>>

\* Map.get on a Map kept as the sequence of its values, keyed by .id
MapGet(map, id) ==
  IF \E k \in 1..Len(map) : map[k].id = id
  THEN Some(map[CHOOSE k \in 1..Len(map) : map[k].id = id])
  ELSE Null

\* Map.set: a new key is appended, an existing key keeps its place
MapSet(map, value) ==
  IF \E k \in 1..Len(map) : map[k].id = value.id
  THEN [k \in 1..Len(map) |-> IF map[k].id = value.id THEN value ELSE map[k]]
  ELSE Append(map, value)

----------------------------------------------------------------------------
(* road-graph.ts: helper functions *)

roadTypes ==
  {"primary", "secondary", "tertiary", "residential",
   "unclassified", "service", "trunk", "motorway",
   "primary_link", "secondary_link", "tertiary_link"}

\* variant: every tagged way counts as a road
isRoadWayMutant(way) == way.tags.highway # ""

\* a way without a highway tag carries highway = ""
isRoadWay(way) ==
  IF way.tags.highway = "" THEN FALSE ELSE way.tags.highway \in roadTypes

interpolateRoadSegment(start, end, n) ==
  [k \in 1..(n + 1) |->
     [x |-> start.x + ((end.x - start.x) * (k - 1)) \div n,
      y |-> start.y + ((end.y - start.y) * (k - 1)) \div n,
      z |-> start.z + ((end.z - start.z) * (k - 1)) \div n]]

RECURSIVE PathLengthFrom(_, _)
PathLengthFrom(points, i) ==
  IF i > Len(points) THEN 0
  ELSE LET dx == points[i].x - points[i - 1].x
           dz == points[i].z - points[i - 1].z
       IN  Sqrt(dx * dx + dz * dz) + PathLengthFrom(points, i + 1)

calculatePathLength(points) == PathLengthFrom(points, 2)

latLonToWorld(lat, lon, bounds, worldSize) ==
  [x |-> ((lon - bounds.minLon) * worldSize) \div (bounds.maxLon - bounds.minLon)
           - (worldSize \div 2),
   z |-> ((lat - bounds.minLat) * worldSize) \div (bounds.maxLat - bounds.minLat)
           - (worldSize \div 2)]

sampleTerrainHeight(heightmap, worldX, worldZ, worldSize) ==
  LET size == Len(heightmap)
      x == ((worldX + (worldSize \div 2)) * size) \div worldSize
      z == ((worldZ + (worldSize \div 2)) * size) \div worldSize
  IN  IF x >= 0 /\ x < size /\ z >= 0 /\ z < size
      THEN heightmap[x + 1][z + 1]
      ELSE 0

----------------------------------------------------------------------------
(* road-graph.ts: createConnectedRoadNetwork *)

\* Set.add of each id of a way, in order (a Set keeps first insertion order)
RECURSIVE SetAddAll(_, _)
SetAddAll(set, ids) ==
  IF ids = <<>> THEN set
  ELSE SetAddAll(IF \E k \in 1..Len(set) : set[k] = Head(ids)
                 THEN set ELSE Append(set, Head(ids)),
                 Tail(ids))

\* Step 1, first loop: the ids referenced by road ways
RECURSIVE CollectRoadNodeIds(_, _)
CollectRoadNodeIds(ways, roadNodeIds) ==
  IF ways = <<>> THEN roadNodeIds
  ELSE CollectRoadNodeIds(Tail(ways),
         IF isRoadWay(Head(ways))
         THEN SetAddAll(roadNodeIds, Head(ways).nodes)
         ELSE roadNodeIds)

IndexKey(x, z) == <<MathRound(x), MathRound(z)>>

NodeIndexSet(nodeIndex, indexKey, nodeId) ==
  [k \in (DOMAIN nodeIndex) \cup {indexKey} |->
     IF k = indexKey THEN nodeId ELSE nodeIndex[k]]

\* Step 1, second loop body: one road node and its index entry
CreateRoadNode(net, osm, osmNodeId, bounds, terrain) ==
  IF osmNodeId \notin DOMAIN osm.nodes THEN net
  ELSE LET osmNode == osm.nodes[osmNodeId]
           worldPos == latLonToWorld(osmNode.lat, osmNode.lon, bounds, terrain.worldSize)
           terrainHeight == sampleTerrainHeight(terrain.heightmap, worldPos.x,
                                                worldPos.z, terrain.worldSize)
           roadNode == [id |-> NodeIdOf(osmNodeId),
                        position |-> [x |-> worldPos.x,
                                      y |-> terrainHeight + 3 * Unit,
                                      z |-> worldPos.z],
                        connectedRoads |-> <<>>,
                        osmNodeId |-> osmNodeId]
       IN  [net EXCEPT !.nodes = MapSet(@, roadNode),
                       !.nodeIndex = NodeIndexSet(@, IndexKey(worldPos.x, worldPos.z),
                                                  roadNode.id)]

RECURSIVE CreateRoadNodes(_, _, _, _, _)
CreateRoadNodes(net, osm, roadNodeIds, bounds, terrain) ==
  IF roadNodeIds = <<>> THEN net
  ELSE CreateRoadNodes(CreateRoadNode(net, osm, Head(roadNodeIds), bounds, terrain),
                       osm, Tail(roadNodeIds), bounds, terrain)

\* variant: the push lands on the nodes that do not carry the id
PushConnectedRoadMutant(nodes, nodeId, segmentId) ==
  [k \in 1..Len(nodes) |->
     IF nodes[k].id # nodeId
     THEN [nodes[k] EXCEPT !.connectedRoads = Append(@, segmentId)]
     ELSE nodes[k]]

\* connectedRoads.push on the node object with this id
PushConnectedRoad(nodes, nodeId, segmentId) ==
  [k \in 1..Len(nodes) |->
     IF nodes[k].id = nodeId
     THEN [nodes[k] EXCEPT !.connectedRoads = Append(@, segmentId)]
     ELSE nodes[k]]

\* Step 2, inner loop body for index i (0-based) of a way
CreateSegment(net, way, i) ==
  LET startNodeId == NodeIdOf(way.nodes[i + 1])
      endNodeId == NodeIdOf(way.nodes[i + 2])
      startNode == MapGet(net.nodes, startNodeId)
      endNode == MapGet(net.nodes, endNodeId)
  IN  IF startNode = Null \/ endNode = Null THEN net
      ELSE LET segmentId == SegmentIdOf(way.id, i)
               points == interpolateRoadSegment(startNode[1].position,
                                                endNode[1].position, numPoints)
               length == calculatePathLength(points)
               segment == [id |-> segmentId,
                           startNodeId |-> startNodeId,
                           endNodeId |-> endNodeId,
                           points |-> points,
                           length |-> Max(length, 1 * Unit),
                           name |-> way.tags.name,
                           highway |-> way.tags.highway,
                           osmWayId |-> way.id]
           IN  [net EXCEPT
                  !.segments = MapSet(@, segment),
                  !.nodes = PushConnectedRoad(
                              PushConnectedRoad(@, startNodeId, segmentId),
                              endNodeId, segmentId)]

RECURSIVE CreateWaySegments(_, _, _)
CreateWaySegments(net, way, i) ==
  IF i >= Len(way.nodes) - 1 THEN net
  ELSE CreateWaySegments(CreateSegment(net, way, i), way, i + 1)

RECURSIVE CreateSegments(_, _)
CreateSegments(net, ways) ==
  IF ways = <<>> THEN net
  ELSE CreateSegments(
         IF ~isRoadWay(Head(ways)) \/ Len(Head(ways).nodes) < 2
         THEN net
         ELSE CreateWaySegments(net, Head(ways), 0),
         Tail(ways))

EmptyNetwork == [nodes |-> <<>>, segments |-> <<>>, nodeIndex |-> <<>>]

createConnectedRoadNetwork(osm, bounds, terrain) ==
  CreateSegments(
    CreateRoadNodes(EmptyNetwork, osm, CollectRoadNodeIds(osm.ways, <<>>),
                    bounds, terrain),
    osm.ways)

----------------------------------------------------------------------------
(* road-graph.ts: queries on a built network *)

findConnectedRoads(currentSegmentId, currentNodeId, network) ==
  LET currentNode == MapGet(network.nodes, currentNodeId)
  IN  IF currentNode = Null THEN <<>>
      ELSE LET ids == SelectSeq(currentNode[1].connectedRoads,
                                LAMBDA segmentId : segmentId # currentSegmentId)
               found == SelectSeq(ids, LAMBDA segmentId :
                                         MapGet(network.segments, segmentId) # Null)
           IN  [k \in 1..Len(found) |-> MapGet(network.segments, found[k])[1]]

\* squared planar distance (x and z only, as in the code)
Distance2(position, nodePosition) ==
  (position.x - nodePosition.x) * (position.x - nodePosition.x)
  + (position.z - nodePosition.z) * (position.z - nodePosition.z)

\* the loop body shared by both passes: keep the node when distance < minDistance
RECURSIVE ScanNodes(_, _, _)
ScanNodes(position, visited, best) ==
  IF visited = <<>> THEN best
  ELSE LET node == Head(visited)
           distance2 == Distance2(position, node.position)
       IN  ScanNodes(position, Tail(visited),
                     IF distance2 < best.minDistance2
                     THEN [nearestNode |-> Some(node), minDistance2 |-> distance2]
                     ELSE best)

\* keys of the index cells the dx/dz loops visit that hold a node, in visiting order
KeyBefore(a, b) == a[1] < b[1] \/ (a[1] = b[1] /\ a[2] < b[2])

RECURSIVE KeysInOrder(_)
KeysInOrder(keys) ==
  IF keys = {} THEN <<>>
  ELSE LET first == CHOOSE a \in keys : \A b \in keys \ {a} : KeyBefore(a, b)
       IN  <<first>> \o KeysInOrder(keys \ {first})

SearchRadius(maxDistance) == MathCeilDiv(maxDistance, 10)

VisitedKeys(position, network, maxDistance) ==
  LET searchRadius == SearchRadius(maxDistance)
  IN  {key \in DOMAIN network.nodeIndex :
         /\ Abs(key[1] - MathRound(position.x)) <= searchRadius
         /\ Abs(key[2] - MathRound(position.z)) <= searchRadius}

\* variant: the pass over all nodes is left out
findNearestNetworkNodeMutant(position, network, maxDistance) ==
  LET start == [nearestNode |-> Null,
                minDistance2 |-> (maxDistance * Unit) * (maxDistance * Unit)]
      keys == KeysInOrder(VisitedKeys(position, network, maxDistance))
      indexed == [k \in 1..Len(keys) |->
                    MapGet(network.nodes, network.nodeIndex[keys[k]])[1]]
  IN  ScanNodes(position, indexed, start).nearestNode

findNearestNetworkNode(position, network, maxDistance) ==
  LET start == [nearestNode |-> Null,
                minDistance2 |-> (maxDistance * Unit) * (maxDistance * Unit)]
      keys == KeysInOrder(VisitedKeys(position, network, maxDistance))
      indexed == [k \in 1..Len(keys) |->
                    MapGet(network.nodes, network.nodeIndex[keys[k]])[1]]
      grid == ScanNodes(position, indexed, start)
  IN  IF grid.nearestNode # Null THEN grid.nearestNode
      ELSE ScanNodes(position, network.nodes, grid).nearestNode

----------------------------------------------------------------------------
(* graph-driving.ts: the driving state and the camera pose *)

\* miniMap is TRUE while the mini-map canvas exists
createGraphDrivingState ==
  [isActive |-> FALSE,
   speed |-> 20,
   network |-> Null,
   currentSegment |-> Null,
   currentSegmentId |-> Null,
   segmentProgress |-> 0,
   direction |-> 1,
   targetNodeId |-> Null,
   lastNodeId |-> Null,
   miniMap |-> FALSE]

\* progress along the points array: segmentProgress, counted from the other
\* end when the direction is -1
SampleProgress(ds) ==
  IF ds.direction = -1 THEN ProgressDen - ds.segmentProgress ELSE ds.segmentProgress

\* segmentIndex (0-based): which two points the vehicle is between
SampleIndex(ds) ==
  Min((SampleProgress(ds) * (Len(ds.currentSegment[1].points) - 1)) \div ProgressDen,
      Len(ds.currentSegment[1].points) - 2)

\* variant: progress is read along the points array whatever the direction
positionCameraOnSegmentMutant(ds, cameraPosition) ==
  IF ds.currentSegment = Null THEN cameraPosition
  ELSE LET points == ds.currentSegment[1].points
           n == Len(points)
       IN  IF n < 2 THEN cameraPosition
           ELSE LET progress == ds.segmentProgress
                    segmentIndex == Min((progress * (n - 1)) \div ProgressDen, n - 2)
                    localProgress == progress * (n - 1) - segmentIndex * ProgressDen
                    currentPoint == points[segmentIndex + 1]
                    nextPoint == points[segmentIndex + 2]
                IN  [x |-> currentPoint.x
                             + ((nextPoint.x - currentPoint.x) * localProgress) \div ProgressDen,
                     y |-> currentPoint.y
                             + ((nextPoint.y - currentPoint.y) * localProgress) \div ProgressDen
                             + 18,
                     z |-> currentPoint.z
                             + ((nextPoint.z - currentPoint.z) * localProgress) \div ProgressDen]

\* the position handed to camera.position.set; the camera is left where it
\* was when there is no current segment or the segment has fewer than 2 points
positionCameraOnSegment(ds, cameraPosition) ==
  IF ds.currentSegment = Null THEN cameraPosition
  ELSE LET points == ds.currentSegment[1].points
           n == Len(points)
       IN  IF n < 2 THEN cameraPosition
           ELSE LET progress == SampleProgress(ds)
                    segmentIndex == SampleIndex(ds)
                    localProgress == progress * (n - 1) - segmentIndex * ProgressDen
                    currentPoint == points[segmentIndex + 1]
                    nextPoint == points[segmentIndex + 2]
                IN  [x |-> currentPoint.x
                             + ((nextPoint.x - currentPoint.x) * localProgress) \div ProgressDen,
                     y |-> currentPoint.y
                             + ((nextPoint.y - currentPoint.y) * localProgress) \div ProgressDen
                             + 18,
                     z |-> currentPoint.z
                             + ((nextPoint.z - currentPoint.z) * localProgress) \div ProgressDen]

\* one vehicle as the functions of graph-driving.ts see it: the driving state
\* and the controls they are handed, and the notification on display
Machine ==
  [drivingState |-> drivingState, controls |-> controls, notification |-> notification]

\* the vehicle of the page is left as the record m describes
Becomes(m) ==
  /\ drivingState' = m.drivingState
  /\ controls' = m.controls
  /\ notification' = m.notification

\* variant: the segment references are kept
StoppedMutant(ds) ==
  [ds EXCEPT !.isActive = FALSE,
             !.network = Null,
             !.miniMap = FALSE]

\* stopGraphDriving as a function of the state it is given
Stopped(ds) ==
  [ds EXCEPT !.isActive = FALSE,
             !.network = Null,
             !.currentSegment = Null,
             !.currentSegmentId = Null,
             !.miniMap = FALSE]

StopResult(m) ==
  [drivingState |-> Stopped(m.drivingState),
   controls |-> [m.controls EXCEPT !.orbitControls.enabled = TRUE],
   notification |-> "Drive stopped"]

stopGraphDriving ==
  /\ Becomes(StopResult(Machine))
  /\ UNCHANGED <<osmData, connectedNetwork, query>>

\* the three lookups of startGraphDriving, radii 100, 300, 1000
StartSearch(cameraPosition, network) ==
  LET first == findNearestNetworkNode(cameraPosition, network, 100)
      second == IF first # Null THEN first
                ELSE findNearestNetworkNode(cameraPosition, network, 300)
  IN  IF second # Null THEN second
      ELSE findNearestNetworkNode(cameraPosition, network, 1000)

\* variant: the direction test compares the end node
StartedMutant(ds, network, nearestNode, firstSegment) ==
  [ds EXCEPT !.network = Some(network),
             !.isActive = TRUE,
             !.currentSegment = Some(firstSegment),
             !.currentSegmentId = Some(nearestNode.connectedRoads[1]),
             !.direction = IF firstSegment.endNodeId = nearestNode.id THEN 1 ELSE -1,
             !.targetNodeId = IF firstSegment.endNodeId = nearestNode.id
                              THEN Some(firstSegment.endNodeId)
                              ELSE Some(firstSegment.startNodeId),
             !.lastNodeId = IF firstSegment.endNodeId = nearestNode.id
                            THEN Some(firstSegment.startNodeId)
                            ELSE Some(firstSegment.endNodeId),
             !.segmentProgress = 0,
             !.miniMap = TRUE]

\* the state assigned by startGraphDriving once a first segment is chosen
Started(ds, network, nearestNode, firstSegment) ==
  [ds EXCEPT !.network = Some(network),
             !.isActive = TRUE,
             !.currentSegment = Some(firstSegment),
             !.currentSegmentId = Some(nearestNode.connectedRoads[1]),
             !.direction = IF firstSegment.startNodeId = nearestNode.id THEN 1 ELSE -1,
             !.targetNodeId = IF firstSegment.startNodeId = nearestNode.id
                              THEN Some(firstSegment.endNodeId)
                              ELSE Some(firstSegment.startNodeId),
             !.lastNodeId = IF firstSegment.startNodeId = nearestNode.id
                            THEN Some(firstSegment.startNodeId)
                            ELSE Some(firstSegment.endNodeId),
             !.segmentProgress = 0,
             !.miniMap = TRUE]

\* variant: the size test is missing
HasNoRoadsMutant(network) == network = Null

\* the guard `!network || network.segments.size === 0`
HasNoRoads(network) == network = Null \/ Len(network[1].segments) = 0

\* network is Null or Some(net), as passed by the caller
\* variant: the machine is started afresh also when it is active
StartResultMutant(m, network) ==
  IF HasNoRoads(network)
  THEN [m EXCEPT !.notification = "No road network available"]
  ELSE LET nearestNode == StartSearch(m.controls.camera.position, network[1])
       IN  IF nearestNode = Null \/ Len(nearestNode[1].connectedRoads) = 0
           THEN [m EXCEPT !.drivingState.network = network,
                          !.notification = "No accessible road found"]
           ELSE LET firstSegment == MapGet(network[1].segments,
                                           nearestNode[1].connectedRoads[1])
                IN  IF firstSegment = Null
                    THEN [m EXCEPT !.drivingState.network = network]
                    ELSE LET ds == Started(m.drivingState, network[1],
                                           nearestNode[1], firstSegment[1])
                         IN  [drivingState |-> ds,
                              controls |->
                                [m.controls EXCEPT
                                   !.orbitControls.enabled = FALSE,
                                   !.camera.position = positionCameraOnSegment(ds, @)],
                              notification |-> "Started driving"]

StartResult(m, network) ==
  IF m.drivingState.isActive THEN StopResult(m)
  ELSE IF HasNoRoads(network)
  THEN [m EXCEPT !.notification = "No road network available"]
  ELSE LET nearestNode == StartSearch(m.controls.camera.position, network[1])
       IN  IF nearestNode = Null \/ Len(nearestNode[1].connectedRoads) = 0
           THEN [m EXCEPT !.drivingState.network = network,
                          !.notification = "No accessible road found"]
           ELSE LET firstSegment == MapGet(network[1].segments,
                                           nearestNode[1].connectedRoads[1])
                IN  IF firstSegment = Null
                    THEN [m EXCEPT !.drivingState.network = network]
                    ELSE LET ds == Started(m.drivingState, network[1],
                                           nearestNode[1], firstSegment[1])
                         IN  [drivingState |-> ds,
                              controls |->
                                [m.controls EXCEPT
                                   !.orbitControls.enabled = FALSE,
                                   !.camera.position = positionCameraOnSegment(ds, @)],
                              notification |-> "Started driving"]

startGraphDriving(network) ==
  /\ Becomes(StartResult(Machine, network))
  /\ UNCHANGED <<osmData, connectedNetwork, query>>

\* Math.random() * 0.5 in repositionGraphCar, in 1/ProgressDen
RepositionProgress == {0, 10, 45}

\* a segment with both end nodes present and more than one road at either end
IsValidSegment(network, segment) ==
  LET startNode == MapGet(network.nodes, segment.startNodeId)
      endNode == MapGet(network.nodes, segment.endNodeId)
  IN  /\ startNode # Null
      /\ endNode # Null
      /\ (Len(startNode[1].connectedRoads) > 1 \/ Len(endNode[1].connectedRoads) > 1)

\* variant: the target is the end node whatever the direction
RepositionedMutant(ds, randomSegment, randomDirection, randomProgress) ==
  [ds EXCEPT !.currentSegment = Some(randomSegment),
             !.currentSegmentId = Some(randomSegment.id),
             !.direction = randomDirection,
             !.segmentProgress = randomProgress,
             !.targetNodeId = Some(randomSegment.endNodeId),
             !.lastNodeId = Some(randomSegment.startNodeId)]

Repositioned(ds, randomSegment, randomDirection, randomProgress) ==
  [ds EXCEPT !.currentSegment = Some(randomSegment),
             !.currentSegmentId = Some(randomSegment.id),
             !.direction = randomDirection,
             !.segmentProgress = randomProgress,
             !.targetNodeId = IF randomDirection = 1
                              THEN Some(randomSegment.endNodeId)
                              ELSE Some(randomSegment.startNodeId),
             !.lastNodeId = IF randomDirection = 1
                            THEN Some(randomSegment.startNodeId)
                            ELSE Some(randomSegment.endNodeId)]

RepositionResults(m) ==
  IF ~m.drivingState.isActive \/ m.drivingState.network = Null THEN {m}
  ELSE LET network == m.drivingState.network[1]
           validSegments == SelectSeq(network.segments,
                                      LAMBDA segment : IsValidSegment(network, segment))
       IN  IF Len(validSegments) = 0
           THEN {[m EXCEPT !.notification = "No valid segments found"]}
           ELSE {[drivingState |->
                    Repositioned(m.drivingState, validSegments[k],
                                 randomDirection, randomProgress),
                  controls |->
                    [m.controls EXCEPT !.camera.position =
                       positionCameraOnSegment(
                         Repositioned(m.drivingState, validSegments[k],
                                      randomDirection, randomProgress), @)],
                  notification |-> "Repositioned"] :
                   k \in 1..Len(validSegments), randomDirection \in {1, -1},
                   randomProgress \in RepositionProgress}

repositionGraphCar ==
  /\ \E result \in RepositionResults(Machine) : Becomes(result)
  /\ UNCHANGED <<osmData, connectedNetwork, query>>

RoadName(segment) == IF segment.name = "" THEN "Unknown road" ELSE segment.name

\* variant: targetNodeId and lastNodeId are not swapped
TurnedAroundNoSwap(ds) ==
  [ds EXCEPT !.direction = ds.direction * (-1),
             !.segmentProgress = Max(0, Min(ProgressDen, ProgressDen - ds.segmentProgress))]

\* variant: progress is clamped but not complemented
TurnedAroundNoComplement(ds) ==
  [ds EXCEPT !.direction = ds.direction * (-1),
             !.segmentProgress = Max(0, Min(ProgressDen, ds.segmentProgress)),
             !.targetNodeId = ds.lastNodeId,
             !.lastNodeId = ds.targetNodeId]

\* variant: the excess is carried past the node
TurnedAroundNoClamp(ds) ==
  [ds EXCEPT !.direction = ds.direction * (-1),
             !.segmentProgress = ProgressDen - ds.segmentProgress,
             !.targetNodeId = ds.lastNodeId,
             !.lastNodeId = ds.targetNodeId]

\* dead end branch of handleNodeReached
TurnedAround(ds) ==
  [ds EXCEPT !.direction = ds.direction * (-1),
             !.segmentProgress = Max(0, Min(ProgressDen, ProgressDen - ds.segmentProgress)),
             !.targetNodeId = ds.lastNodeId,
             !.lastNodeId = ds.targetNodeId]

\* variant: the points of the entered segment are put in driving order
EnteredSegmentMutant(ds, nextSegment) ==
  LET points == nextSegment.points
      ordered == IF Some(nextSegment.startNodeId) = ds.targetNodeId
                 THEN nextSegment
                 ELSE [nextSegment EXCEPT !.points =
                         [k \in 1..Len(points) |-> points[Len(points) + 1 - k]]]
  IN  [ds EXCEPT !.currentSegment = Some(ordered),
                 !.currentSegmentId = Some(nextSegment.id),
                 !.lastNodeId = ds.targetNodeId,
                 !.targetNodeId = IF Some(nextSegment.startNodeId) = ds.targetNodeId
                                  THEN Some(nextSegment.endNodeId)
                                  ELSE Some(nextSegment.startNodeId),
                 !.direction = IF Some(nextSegment.startNodeId) = ds.targetNodeId
                               THEN 1 ELSE -1,
                 !.segmentProgress = 0]

\* intersection branch of handleNodeReached for the chosen next segment
EnteredSegment(ds, nextSegment) ==
  [ds EXCEPT !.currentSegment = Some(nextSegment),
             !.currentSegmentId = Some(nextSegment.id),
             !.lastNodeId = ds.targetNodeId,
             !.targetNodeId = IF Some(nextSegment.startNodeId) = ds.targetNodeId
                              THEN Some(nextSegment.endNodeId)
                              ELSE Some(nextSegment.startNodeId),
             !.direction = IF Some(nextSegment.startNodeId) = ds.targetNodeId
                           THEN 1 ELSE -1,
             !.segmentProgress = 0]

\* variant: the segment just driven is not excluded
PossibleSegmentsMutant(ds) ==
  LET network == ds.network[1]
      targetNode == MapGet(network.nodes, ds.targetNodeId[1])[1]
      found == SelectSeq(targetNode.connectedRoads,
                         LAMBDA segmentId : MapGet(network.segments, segmentId) # Null)
  IN  [k \in 1..Len(found) |-> MapGet(network.segments, found[k])[1]]

\* the segments handleNodeReached may choose from
PossibleSegments(ds) ==
  LET network == ds.network[1]
      targetNode == MapGet(network.nodes, ds.targetNodeId[1])[1]
      ids == SelectSeq(targetNode.connectedRoads,
                       LAMBDA segmentId : Some(segmentId) # ds.currentSegmentId)
      found == SelectSeq(ids, LAMBDA segmentId :
                                MapGet(network.segments, segmentId) # Null)
  IN  [k \in 1..Len(found) |-> MapGet(network.segments, found[k])[1]]

\* the outcomes of handleNodeReached: the new state, camera position and message
handleNodeReached(ds, cameraPosition, message) ==
  IF ds.network = Null \/ ds.targetNodeId = Null
  THEN {[drivingState |-> ds, position |-> cameraPosition, notification |-> message]}
  ELSE IF MapGet(ds.network[1].nodes, ds.targetNodeId[1]) = Null
  THEN {[drivingState |-> ds, position |-> cameraPosition, notification |-> message]}
  ELSE LET possibleSegments == PossibleSegments(ds)
       IN  IF Len(possibleSegments) = 0
           THEN {[drivingState |-> TurnedAround(ds),
                  position |-> positionCameraOnSegment(TurnedAround(ds), cameraPosition),
                  notification |-> "Turning around on"]}
           ELSE {[drivingState |-> EnteredSegment(ds, possibleSegments[k]),
                  position |-> positionCameraOnSegment(
                                 EnteredSegment(ds, possibleSegments[k]), cameraPosition),
                  notification |-> IF RoadName(ds.currentSegment[1])
                                      # RoadName(possibleSegments[k])
                                   THEN "Turning onto" ELSE "Continuing on"]
                 : k \in 1..Len(possibleSegments)}

\* deltaProgress in 1/ProgressDen: speed in km/h, length in tenths of a unit,
\* deltaTime in milliseconds:
\*   speedUnitsPerSecond = speed * 1000 / 3600
\*   progressPerSecond   = speedUnitsPerSecond / segmentLength
\*   deltaProgress       = progressPerSecond * deltaTime * direction
DeltaProgress(speed, segmentLength, deltaTime, direction) ==
  ((speed * deltaTime * ProgressDen) \div (360 * segmentLength)) * direction

\* the inputs for which DeltaProgress is exact
ExactStep(speed, segmentLength, deltaTime) ==
  (speed * deltaTime * ProgressDen) % (360 * segmentLength) = 0

\* segmentProgress after the addition, before the boundary test
Advanced(ds, deltaTime) ==
  [ds EXCEPT !.segmentProgress =
     @ + DeltaProgress(ds.speed, ds.currentSegment[1].length, deltaTime, ds.direction)]

\* variant: only the upper end is tested
ReachedSegmentEndMutant(ds) == ds.segmentProgress >= ProgressDen

ReachedSegmentEnd(ds) == ds.segmentProgress >= ProgressDen \/ ds.segmentProgress <= 0

UpdateResults(m, deltaTime) ==
  IF \/ ~m.drivingState.isActive
     \/ m.drivingState.currentSegment = Null
     \/ m.drivingState.network = Null
  THEN {m}
  ELSE LET ds == Advanced(m.drivingState, deltaTime)
       IN  IF ReachedSegmentEnd(ds)
           THEN {[drivingState |-> outcome.drivingState,
                  controls |-> [m.controls EXCEPT !.camera.position = outcome.position],
                  notification |-> outcome.notification] :
                   outcome \in handleNodeReached(ds, m.controls.camera.position,
                                                 m.notification)}
           ELSE {[m EXCEPT !.drivingState = ds,
                           !.controls.camera.position = positionCameraOnSegment(ds, @)]}

updateGraphDriving(deltaTime) ==
  /\ \E result \in UpdateResults(Machine, deltaTime) : Becomes(result)
  /\ UNCHANGED <<osmData, connectedNetwork, query>>

----------------------------------------------------------------------------
(* Inputs *)

\* the projection bounds and a flat terrain whose world spans the bounds
haldenBounds == [minLat |-> -15000, maxLat |-> 15000, minLon |-> -15000, maxLon |-> 15000]

terrain == [worldSize |-> 30000, heightmap |-> <<<<0>>>>]

\* an OSM node that projects to (x, z), both in tenths of a world unit
Point(x, z) == [lat |-> z, lon |-> x]

Way(id, nodes, highway, name) ==
  [id |-> id, nodes |-> nodes, tags |-> [highway |-> highway, name |-> name]]

\* single 10-unit segment
SingleSegment ==
  [ways |-> <<Way(1, <<1, 2>>, "residential", "")>>,
   nodes |-> (1 :> Point(0, 0)) @@ (2 :> Point(100, 0))]

\* segment A (node 1 -> node 2, length 100) and segment B (node 2 -> node 3, length 50)
TwoSegments ==
  [ways |-> <<Way(1, <<1, 2, 3>>, "primary", "")>>,
   nodes |-> (1 :> Point(0, 0)) @@ (2 :> Point(1000, 0)) @@ (3 :> Point(1500, 0))]

\* a junction at node 2 with a third road that ends there
Junction ==
  [ways |-> <<Way(1, <<1, 2, 3>>, "primary", "Main St"),
              Way(2, <<4, 2>>, "service", "")>>,
   nodes |-> (1 :> Point(0, 0)) @@ (2 :> Point(1000, 0)) @@ (3 :> Point(1500, 0))
             @@ (4 :> Point(1000, -500))]

\* a one-point way next to a road
OnePointWay ==
  [ways |-> <<Way(1, <<5>>, "residential", ""), Way(2, <<1, 2>>, "residential", "")>>,
   nodes |-> (5 :> Point(0, 0)) @@ (1 :> Point(100, 0)) @@ (2 :> Point(200, 0))]

\* a way whose middle point is missing from the node collection
MissingPoint ==
  [ways |-> <<Way(1, <<1, 2, 3>>, "tertiary", ""), Way(2, <<3, 4, 8>>, "tertiary", "")>>,
   nodes |-> (1 :> Point(0, 0)) @@ (3 :> Point(1500, 0)) @@ (4 :> Point(2000, 0))
             @@ (8 :> Point(2500, 0))]

\* no road of two points: a footpath, an untagged way and a one-point road
NoSegments ==
  [ways |-> <<Way(1, <<1, 2>>, "footway", ""), Way(2, <<2, 3>>, "", ""),
              Way(3, <<3>>, "residential", "")>>,
   nodes |-> (1 :> Point(0, 0)) @@ (2 :> Point(100, 0)) @@ (3 :> Point(200, 0))]

\* two points that round to the same index cell
SameCell ==
  [ways |-> <<Way(1, <<1, 2>>, "residential", ""), Way(2, <<6>>, "unclassified", "")>>,
   nodes |-> (1 :> Point(0, 0)) @@ (2 :> Point(100, 0)) @@ (6 :> Point(4, 0))]

\* a way that lists the same point twice in a row
RepeatedPoint ==
  [ways |-> <<Way(1, <<1, 1, 2>>, "residential", "")>>,
   nodes |-> (1 :> Point(0, 0)) @@ (2 :> Point(100, 0))]

\* two ways over the same pair of points
ParallelWays ==
  [ways |-> <<Way(1, <<1, 2>>, "secondary", ""), Way(2, <<2, 1>>, "secondary", "")>>,
   nodes |-> (1 :> Point(0, 0)) @@ (2 :> Point(200, 0))]

\* a road that leaves the x axis (a 30-40-50 triangle)
Diagonal ==
  [ways |-> <<Way(1, <<1, 2>>, "trunk", ""), Way(2, <<7, 2>>, "trunk", "")>>,
   nodes |-> (1 :> Point(0, 0)) @@ (2 :> Point(1000, 0)) @@ (7 :> Point(1300, 400))]

Scenarios ==
  {SingleSegment, TwoSegments, Junction, OnePointWay, MissingPoint, NoSegments,
   SameCell, RepeatedPoint, ParallelWays, Diagonal}

\* where the orbit camera may stand before a drive
SeedPositions ==
  {[x |-> 0, y |-> 0, z |-> 0], [x |-> 3500, y |-> 0, z |-> 0],
   [x |-> 14000, y |-> 0, z |-> 0]}

Speeds == {0, 20, 36}

\* deltaTime in milliseconds
DeltaTimes == {0, 500, 4500}

\* enumerated builder inputs: up to MaxWays ways of up to MaxWayLen points
OsmIds == {1, 2, 3}

BuildHighways == {"residential", "footway"}

WayNodeLists == UNION {[1..n -> OsmIds] : n \in 0..MaxWayLen}

BuildWays ==
  UNION {{[k \in 1..n |-> Way(k, f[k][1], f[k][2], "")] :
            f \in [1..n -> WayNodeLists \X BuildHighways]} : n \in 0..MaxWays}

BuildPoint(id) == IF id = 1 THEN Point(0, 0) ELSE IF id = 2 THEN Point(4, 0)
                  ELSE Point(100, 0)

BuildInputs ==
  {[ways |-> ways, nodes |-> [id \in present |-> BuildPoint(id)]] :
     ways \in BuildWays, present \in SUBSET OsmIds}

\* highway values of the fetched ways: the road types, other link roads,
\* paths, and ways without the tag
Highways ==
  roadTypes \cup {"trunk_link", "motorway_link", "living_street", "footway",
                  "cycleway", ""}

\* two ways of two points each that meet at point 2, of any two categories
CategoryInputs ==
  {[ways |-> <<Way(1, <<1, 2>>, first, ""), Way(2, <<2, 3>>, second, "")>>,
    nodes |-> [id \in OsmIds |-> BuildPoint(id)]] :
     first \in Highways, second \in Highways}

\* enumerated lookup inputs: a road between points 1 and 2 on the x axis and
\* a one-point way 3 anywhere, each point possibly missing
AxisPoints == {Point(0, 0), Point(4, 0), Point(500, 0), Point(2000, 0), Point(12000, 0)}

NearestPoints == AxisPoints \cup {Point(100, 100)}

NearestInputs ==
  {[ways |-> <<Way(1, <<1, 2>>, "residential", ""), Way(2, <<3>>, "residential", "")>>,
    nodes |-> [id \in present |-> IF id = 1 THEN p1 ELSE IF id = 2 THEN p2 ELSE p3]] :
     p1 \in AxisPoints, p2 \in AxisPoints, p3 \in NearestPoints,
     present \in SUBSET OsmIds}

QueryPositions == {[x |-> 0, y |-> 0, z |-> 0], [x |-> 100, y |-> 0, z |-> 104]}

QueryRadii == {50, 100, 300, 1000}

----------------------------------------------------------------------------
(* Actions *)

\* setupDriving in the page: the network is built once from the fetched data
LoadRoads ==
  /\ connectedNetwork = Null
  /\ connectedNetwork' = Some(createConnectedRoadNetwork(osmData, haldenBounds, terrain))
  /\ UNCHANGED <<osmData, drivingState, controls, notification, query, ticks, peer>>

\* the inputs of the tick calls since the drive began, while there are at
\* most MaxTicks of them; TooManyTicks afterwards
TooManyTicks == <<[speed |-> -1, deltaTime |-> -1]>>

Recorded(history, speed, deltaTime) ==
  IF history # TooManyTicks /\ Len(history) < MaxTicks
  THEN Append(history, [speed |-> speed, deltaTime |-> deltaTime])
  ELSE TooManyTicks

Start ==
  /\ \E network \in {Null, connectedNetwork} : startGraphDriving(network)
  /\ ticks' = <<>>
  /\ UNCHANGED peer

Stop == stopGraphDriving /\ ticks' = <<>> /\ UNCHANGED peer

Reposition == repositionGraphCar /\ UNCHANGED <<ticks, peer>>

\* updateDrivingSystem: one frame of the render loop with this deltaTime
TickWith(deltaTime) ==
  /\ updateGraphDriving(deltaTime)
  /\ ticks' = IF drivingState.isActive
              THEN Recorded(ticks, drivingState.speed, deltaTime)
              ELSE ticks
  /\ UNCHANGED peer

Tick ==
  \E deltaTime \in DeltaTimes :
    /\ drivingState.currentSegment # Null =>
         ExactStep(drivingState.speed, drivingState.currentSegment[1].length, deltaTime)
    /\ TickWith(deltaTime)

\* the speed slider
SetSpeed ==
  /\ \E speed \in Speeds : drivingState' = [drivingState EXCEPT !.speed = speed]
  /\ UNCHANGED <<osmData, connectedNetwork, controls, notification, query, ticks, peer>>

\* the orbit controls move the camera while they are enabled
MoveCamera ==
  /\ controls.orbitControls.enabled
  /\ \E position \in SeedPositions :
       controls' = [controls EXCEPT !.camera.position = position]
  /\ UNCHANGED <<osmData, connectedNetwork, drivingState, notification, query, ticks,
                 peer>>

\* a lookup on the built network, recorded with its arguments
FindNearest ==
  /\ connectedNetwork # Null
  /\ \E position \in QueryPositions, maxDistance \in QueryRadii :
       query' = Some([position |-> position, maxDistance |-> maxDistance,
                      result |-> findNearestNetworkNode(position, connectedNetwork[1],
                                                        maxDistance)])
  /\ UNCHANGED <<osmData, connectedNetwork, drivingState, controls, notification, ticks,
                 peer>>

\* a second vehicle on the same page: createGraphDrivingState and controls of
\* its own, the camera at this position
NewMachine(position) ==
  [drivingState |-> createGraphDrivingState,
   controls |-> [camera |-> [position |-> position],
                 orbitControls |-> [enabled |-> TRUE]],
   notification |-> ""]

InitCommon ==
  /\ peer = NewMachine([x |-> 0, y |-> 0, z |-> 0])
  /\ connectedNetwork = Null
  /\ drivingState = createGraphDrivingState
  /\ controls \in {[camera |-> [position |-> position],
                    orbitControls |-> [enabled |-> TRUE]] : position \in SeedPositions}
  /\ notification = ""
  /\ query = Null
  /\ ticks = <<>>

Init == osmData \in Scenarios /\ InitCommon

Next == LoadRoads \/ Start \/ Stop \/ Reposition \/ Tick \/ SetSpeed \/ MoveCamera

Spec == Init /\ [][Next]_vars

\* the builder alone, over the enumerated inputs
InitBuild ==
  /\ osmData \in BuildInputs \cup Scenarios \cup CategoryInputs
  /\ InitCommon
  /\ controls.camera.position = [x |-> 0, y |-> 0, z |-> 0]

NextBuild == LoadRoads

SpecBuild == InitBuild /\ [][NextBuild]_vars

\* the nearest-node lookup alone
InitNearest ==
  /\ osmData \in NearestInputs
  /\ InitCommon
  /\ controls.camera.position = [x |-> 0, y |-> 0, z |-> 0]

NextNearest == LoadRoads \/ FindNearest

SpecNearest == InitNearest /\ [][NextNearest]_vars

\* positionCameraOnSegment called for a machine that is on any segment of the
\* built network, at any progress from 0 to 1, heading either way
Sample ==
  /\ connectedNetwork # Null
  /\ ~drivingState.isActive
  /\ \E k \in 1..Len(connectedNetwork[1].segments), direction \in {1, -1},
        progress \in 0..ProgressDen :
       LET ds == Repositioned([drivingState EXCEPT !.isActive = TRUE,
                                                   !.network = connectedNetwork,
                                                   !.miniMap = TRUE],
                              connectedNetwork[1].segments[k], direction, progress)
       IN  /\ drivingState' = ds
           /\ controls' = [controls EXCEPT
                             !.camera.position = positionCameraOnSegment(ds, @)]
  /\ UNCHANGED <<osmData, connectedNetwork, notification, query, ticks, peer>>

\* the pose sampler alone
InitSample ==
  /\ osmData \in Scenarios
  /\ InitCommon
  /\ controls.camera.position = [x |-> 0, y |-> 0, z |-> 0]

NextSample == LoadRoads \/ Sample

SpecSample == InitSample /\ [][NextSample]_vars

\* two vehicles driving on the one network the page built: the second
\* vehicle's calls of the four operations, at any point between the first's
PeerStart ==
  /\ \E network \in {Null, connectedNetwork} : peer' = StartResult(peer, network)
  /\ UNCHANGED <<osmData, connectedNetwork, drivingState, controls, notification, query,
                 ticks>>

PeerStop ==
  /\ peer' = StopResult(peer)
  /\ UNCHANGED <<osmData, connectedNetwork, drivingState, controls, notification, query,
                 ticks>>

PeerReposition ==
  /\ peer' \in RepositionResults(peer)
  /\ UNCHANGED <<osmData, connectedNetwork, drivingState, controls, notification, query,
                 ticks>>

PeerTick ==
  /\ \E deltaTime \in DeltaTimes :
       /\ peer.drivingState.currentSegment # Null =>
            ExactStep(peer.drivingState.speed,
                      peer.drivingState.currentSegment[1].length, deltaTime)
       /\ peer' \in UpdateResults(peer, deltaTime)
  /\ UNCHANGED <<osmData, connectedNetwork, drivingState, controls, notification, query,
                 ticks>>

SharedScenarios == {Junction}

InitShared ==
  /\ osmData \in SharedScenarios
  /\ connectedNetwork = Null
  /\ drivingState = createGraphDrivingState
  /\ controls = NewMachine([x |-> 0, y |-> 0, z |-> 0]).controls
  /\ notification = ""
  /\ query = Null
  /\ ticks = <<>>
  /\ peer \in {NewMachine(position) : position \in SeedPositions \ {controls.camera.position}}

\* the first vehicle is started, ticked and stopped; the second is also
\* repositioned
NextShared ==
  \/ LoadRoads \/ Start \/ Stop \/ Tick
  \/ PeerStart \/ PeerStop \/ PeerReposition \/ PeerTick

SpecShared == InitShared /\ [][NextShared]_vars

----------------------------------------------------------------------------
(* Properties of built networks *)

Range(seq) == {seq[k] : k \in 1..Len(seq)}

\* the planar distance of a node from a position, squared
NodeDistance2(position, node) == Distance2(position, node.position)

\* C1: in every built network each segment's startNodeId and endNodeId name
\* nodes of the network, and each id in a node's connectedRoads is the id of
\* a segment of the network that starts or ends at that node.
C1_GraphConsistency ==
  connectedNetwork # Null =>
    LET network == connectedNetwork[1]
    IN  /\ \A segment \in Range(network.segments) :
             /\ \E node \in Range(network.nodes) : node.id = segment.startNodeId
             /\ \E node \in Range(network.nodes) : node.id = segment.endNodeId
        /\ \A node \in Range(network.nodes) :
             \A segmentId \in Range(node.connectedRoads) :
               \E segment \in Range(network.segments) :
                 /\ segment.id = segmentId
                 /\ (segment.startNodeId = node.id \/ segment.endNodeId = node.id)

\* a built network with two segments meeting at a node, from an input in
\* which a road way also names a point that is missing
C1_Witness ==
  /\ connectedNetwork # Null
  /\ Len(connectedNetwork[1].segments) >= 2
  /\ \E node \in Range(connectedNetwork[1].nodes) :
       Cardinality(Range(node.connectedRoads)) >= 2
  /\ \E k \in 1..Len(osmData.ways) :
       /\ isRoadWay(osmData.ways[k])
       /\ \E id \in Range(osmData.ways[k].nodes) : id \notin DOMAIN osmData.nodes

\* C2: in every built network each node has at least one entry in
\* connectedRoads.
C2_NoOrphanNodes ==
  connectedNetwork # Null =>
    \A node \in Range(connectedNetwork[1].nodes) : Len(node.connectedRoads) >= 1

\* C3: a node returned by findNearestNetworkNode is at least as near to the
\* queried position as every other node of the network.
C3_NearestIsNearest ==
  (query # Null /\ query[1].result # Null) =>
    \A node \in Range(connectedNetwork[1].nodes) :
      NodeDistance2(query[1].position, query[1].result[1])
        <= NodeDistance2(query[1].position, node)

----------------------------------------------------------------------------
(* Properties of the driving state machine *)

Traversing ==
  /\ drivingState.isActive
  /\ drivingState.currentSegment # Null
  /\ drivingState.network # Null

\* segmentProgress as the tick leaves it before any node handling
ProgressAfter(deltaTime) ==
  drivingState.segmentProgress
    + DeltaProgress(drivingState.speed, drivingState.currentSegment[1].length,
                    deltaTime, drivingState.direction)

\* the tick makes progress cross 0 or 1
CrossesNode(deltaTime) ==
  /\ Traversing
  /\ (ProgressAfter(deltaTime) >= ProgressDen \/ ProgressAfter(deltaTime) <= 0)

ArrivedNodeExists ==
  /\ drivingState.targetNodeId # Null
  /\ \E node \in Range(drivingState.network[1].nodes) :
       node.id = drivingState.targetNodeId[1]

ArrivedNode ==
  CHOOSE node \in Range(drivingState.network[1].nodes) :
    node.id = drivingState.targetNodeId[1]

\* the segments connected to the arrived-at node other than the current one
Candidates ==
  {segment \in Range(drivingState.network[1].segments) :
     /\ segment.id \in Range(ArrivedNode.connectedRoads)
     /\ Some(segment.id) # drivingState.currentSegmentId}

OtherEndpoint(segment, nodeId) ==
  IF segment.startNodeId = nodeId THEN segment.endNodeId ELSE segment.startNodeId

Clamp01(progress) ==
  IF progress < 0 THEN 0 ELSE IF progress > ProgressDen THEN ProgressDen ELSE progress

SegmentA == SegmentIdOf(1, 0)

SegmentB == SegmentIdOf(1, 1)

\* C4: a tick that makes progress cross 0 or 1 at a node with another
\* connected segment leaves the machine on one of those segments, never the
\* one just left, with direction +1 exactly when the chosen segment starts at
\* the arrived-at node, lastNodeId the arrived-at node, targetNodeId the
\* chosen segment's other end and segmentProgress 0; on the two-segment
\* network it ends on B with direction +1 from node 2 toward node 3.
C4_IntersectionTransition ==
  [][\A deltaTime \in DeltaTimes :
       (TickWith(deltaTime) /\ CrossesNode(deltaTime)
          /\ ArrivedNodeExists /\ Candidates # {}) =>
         /\ drivingState'.isActive
         /\ drivingState'.currentSegment # Null
         /\ drivingState'.currentSegment[1] \in Candidates
         /\ drivingState'.currentSegmentId = Some(drivingState'.currentSegment[1].id)
         /\ drivingState'.currentSegmentId # drivingState.currentSegmentId
         /\ drivingState'.direction =
              IF drivingState'.currentSegment[1].startNodeId = ArrivedNode.id
              THEN 1 ELSE -1
         /\ drivingState'.lastNodeId = drivingState.targetNodeId
         /\ drivingState'.targetNodeId =
              Some(OtherEndpoint(drivingState'.currentSegment[1], ArrivedNode.id))
         /\ drivingState'.segmentProgress = 0
         /\ (osmData = TwoSegments /\ drivingState.currentSegmentId = Some(SegmentA)
               /\ drivingState.direction = 1) =>
              /\ drivingState'.currentSegmentId = Some(SegmentB)
              /\ drivingState'.direction = 1
              /\ drivingState'.lastNodeId = Some(NodeIdOf(2))
              /\ drivingState'.targetNodeId = Some(NodeIdOf(3))
              /\ drivingState'.segmentProgress = 0]_vars

\* the machine has just entered, at its end node, a segment named differently
\* from the one it left, and heads for that segment's start node
C4_Witness ==
  /\ drivingState.isActive
  /\ notification = "Turning onto"
  /\ drivingState.segmentProgress = 0
  /\ drivingState.direction = -1
  /\ drivingState.lastNodeId = Some(drivingState.currentSegment[1].endNodeId)
  /\ drivingState.targetNodeId = Some(drivingState.currentSegment[1].startNodeId)

ExampleTick == [speed |-> 36, deltaTime |-> 500]

\* C5: a tick that makes progress cross 0 or 1 at a node with no other
\* connected segment negates direction, swaps targetNodeId and lastNodeId,
\* sets segmentProgress to 1 - progress clamped to [0,1], keeps the current
\* segment and stays active; on the single 10-unit segment at 36 km/h and
\* 0.5 s per tick the second tick is such a tick and leaves segmentProgress 0.
C5_DeadEndReversal ==
  [][/\ \A deltaTime \in DeltaTimes :
          (TickWith(deltaTime) /\ CrossesNode(deltaTime)
             /\ ArrivedNodeExists /\ Candidates = {}) =>
            /\ drivingState'.direction = 0 - drivingState.direction
            /\ drivingState'.targetNodeId = drivingState.lastNodeId
            /\ drivingState'.lastNodeId = drivingState.targetNodeId
            /\ drivingState'.segmentProgress =
                 Clamp01(ProgressDen - ProgressAfter(deltaTime))
            /\ drivingState'.currentSegment = drivingState.currentSegment
            /\ drivingState'.currentSegmentId = drivingState.currentSegmentId
            /\ drivingState'.network = drivingState.network
            /\ drivingState'.isActive
     /\ (osmData = SingleSegment /\ Traversing /\ ticks = <<ExampleTick>>
           /\ drivingState.speed = 36 /\ TickWith(500)) =>
          /\ CrossesNode(500)
          /\ Candidates = {}
          /\ drivingState'.direction = 0 - drivingState.direction
          /\ drivingState'.segmentProgress = 0]_vars

\* the second 0.5 s tick at 36 km/h on the single 10-unit segment has turned
\* the machine around at the far node
C5_Witness ==
  /\ osmData = SingleSegment
  /\ drivingState.isActive
  /\ ticks = <<ExampleTick, ExampleTick>>
  /\ notification = "Turning around on"
  /\ drivingState.direction = -1
  /\ drivingState.segmentProgress = 0
  /\ drivingState.targetNodeId = Some(NodeIdOf(1))
  /\ drivingState.lastNodeId = Some(NodeIdOf(2))

\* a network of one segment between two nodes with one connection each
IsSingleSegmentNetwork(network) ==
  /\ Len(network.segments) = 1
  /\ Len(network.nodes) = 2
  /\ \A node \in Range(network.nodes) : Len(node.connectedRoads) = 1

\* distance a tick travels, in tenths of a world unit
TravelDistance(deltaTime) == (drivingState.speed * deltaTime) \div 360

CameraMove2 ==
  LET from == controls.camera.position
      to == controls'.camera.position
  IN  (to.x - from.x) * (to.x - from.x) + (to.y - from.y) * (to.y - from.y)
      + (to.z - from.z) * (to.z - from.z)

\* C6: on a single-segment network a tick that reaches the far node flips
\* direction, and no tick, the one after the reversal included, moves the
\* camera farther than the distance travelled in one tick.
C6_ReversalContinuity ==
  [][\A deltaTime \in DeltaTimes :
       (TickWith(deltaTime) /\ Traversing
          /\ IsSingleSegmentNetwork(drivingState.network[1])) =>
         /\ CameraMove2 <= TravelDistance(deltaTime) * TravelDistance(deltaTime)
         /\ CrossesNode(deltaTime) =>
              drivingState'.direction = 0 - drivingState.direction]_vars

\* after the reversal at the far node of the single segment and one more
\* tick, the camera still stands at the far node
C6_Witness ==
  /\ Traversing
  /\ IsSingleSegmentNetwork(drivingState.network[1])
  /\ ticks = TooManyTicks
  /\ notification = "Turning around on"
  /\ drivingState.speed = 36
  /\ controls.camera.position.x = drivingState.currentSegment[1].points[numPoints + 1].x
  /\ controls.camera.position.z = drivingState.currentSegment[1].points[numPoints + 1].z

\* C7: with positive speed and deltaTime a tick without a node transition
\* moves the observer along the segment, and every node transition leaves
\* segmentProgress at a value in [0,1).
C7_ProgressMonotone ==
  [][\A deltaTime \in DeltaTimes :
       (TickWith(deltaTime) /\ Traversing /\ ArrivedNodeExists
          /\ drivingState.speed > 0 /\ deltaTime > 0) =>
         IF CrossesNode(deltaTime)
         THEN /\ drivingState'.segmentProgress >= 0
              /\ drivingState'.segmentProgress < ProgressDen
         ELSE /\ CameraMove2 = TravelDistance(deltaTime) * TravelDistance(deltaTime)
              /\ drivingState'.currentSegmentId = drivingState.currentSegmentId
              /\ drivingState'.direction = drivingState.direction]_vars

\* the arguments the drive button may pass to startGraphDriving
StartArguments == {Null, connectedNetwork}

\* the node the lookups of start settle on: the first of the radii 100, 300,
\* 1000 at which findNearestNetworkNode returns a node
SeedNode(network) == StartSearch(controls.camera.position, network[1])

SegmentWithId(network, segmentId) ==
  CHOOSE segment \in Range(network[1].segments) : segment.id = segmentId

\* C8: start on an inactive machine with a network that has segments and a
\* seed node with a connected segment makes the machine active on the seed
\* node's first connected segment, with direction +1 exactly when the seed
\* node is that segment's startNodeId, lastNodeId the seed node, targetNodeId
\* the segment's opposite end and segmentProgress 0.
C8_StartSelectsFirstSegment ==
  [][\A network \in StartArguments :
       (startGraphDriving(network) /\ ~drivingState.isActive
          /\ network # Null /\ Len(network[1].segments) > 0
          /\ SeedNode(network) # Null
          /\ Len(SeedNode(network)[1].connectedRoads) >= 1) =>
         LET seed == SeedNode(network)[1]
             first == SegmentWithId(network, seed.connectedRoads[1])
         IN  /\ drivingState'.isActive
             /\ drivingState'.network = network
             /\ drivingState'.currentSegmentId = Some(seed.connectedRoads[1])
             /\ drivingState'.currentSegment = Some(first)
             /\ drivingState'.direction = IF first.startNodeId = seed.id THEN 1 ELSE -1
             /\ drivingState'.lastNodeId = Some(seed.id)
             /\ drivingState'.targetNodeId = Some(OtherEndpoint(first, seed.id))
             /\ drivingState'.segmentProgress = 0]_vars

\* a drive has just begun at the end node of its first segment
C8_Witness ==
  /\ drivingState.isActive
  /\ notification = "Started driving"
  /\ ticks = <<>>
  /\ drivingState.segmentProgress = 0
  /\ drivingState.direction = -1
  /\ drivingState.lastNodeId = Some(drivingState.currentSegment[1].endNodeId)
  /\ drivingState.currentSegment[1].startNodeId # drivingState.currentSegment[1].endNodeId

\* C9: start on an inactive machine with a network that has segments
\* succeeds exactly when some node with a connected segment lies within 1000
\* units of the camera.
C9_StartFindsConnectedNode ==
  [][\A network \in StartArguments :
       (startGraphDriving(network) /\ ~drivingState.isActive
          /\ network # Null /\ Len(network[1].segments) > 0) =>
         (drivingState'.isActive <=>
            \E node \in Range(network[1].nodes) :
              /\ Len(node.connectedRoads) >= 1
              /\ NodeDistance2(controls.camera.position, node)
                   < (1000 * Unit) * (1000 * Unit))]_vars

\* C10: start on an inactive machine with no network or a network without
\* segments leaves the machine inactive and every field of the driving state
\* as it was.
C10_StartOnEmptyNetwork ==
  [][\A network \in StartArguments :
       (startGraphDriving(network) /\ ~drivingState.isActive
          /\ (network = Null \/ Len(network[1].segments) = 0)) =>
         /\ ~drivingState'.isActive
         /\ drivingState' = drivingState]_vars

\* start was refused on a built network that has nodes but no segment
C10_Witness ==
  /\ notification = "No road network available"
  /\ ~drivingState.isActive
  /\ connectedNetwork # Null
  /\ Len(connectedNetwork[1].segments) = 0
  /\ Len(connectedNetwork[1].nodes) > 0
  /\ drivingState.network = Null

NodeWithId(network, nodeId) ==
  CHOOSE node \in Range(network.nodes) : node.id = nodeId

\* the number of segments connected to the node with this id
ConnectionsAt(network, nodeId) == Len(NodeWithId(network, nodeId).connectedRoads)

\* C11: a reposition that succeeds while the machine is traversing puts it on
\* a segment both of whose end nodes have more than one connected segment,
\* with segmentProgress in [0, 0.5), and with targetNodeId the segment's
\* endNodeId and lastNodeId its startNodeId exactly when direction is +1.
C11_RepositionCandidates ==
  [][(Reposition /\ Traversing /\ notification' = "Repositioned") =>
       LET network == drivingState.network[1]
           chosen == drivingState'.currentSegment[1]
       IN  /\ ConnectionsAt(network, chosen.startNodeId) > 1
           /\ ConnectionsAt(network, chosen.endNodeId) > 1
           /\ drivingState'.segmentProgress >= 0
           /\ 2 * drivingState'.segmentProgress < ProgressDen
           /\ drivingState'.direction \in {1, -1}
           /\ drivingState'.targetNodeId =
                Some(IF drivingState'.direction = 1
                     THEN chosen.endNodeId ELSE chosen.startNodeId)
           /\ drivingState'.lastNodeId =
                Some(IF drivingState'.direction = 1
                     THEN chosen.startNodeId ELSE chosen.endNodeId)]_vars

\* the segments both of whose end nodes have more than one connected segment
QualifyingSegments(network) ==
  {segment \in Range(network.segments) :
     /\ ConnectionsAt(network, segment.startNodeId) > 1
     /\ ConnectionsAt(network, segment.endNodeId) > 1}

\* C12: reposition on a traversing machine whose network has no segment with
\* more than one connection at both ends, and reposition on an inactive
\* machine, leave every field of the driving state as it was.
C12_RepositionFailure ==
  [][(/\ Reposition
      /\ \/ ~drivingState.isActive
         \/ Traversing /\ QualifyingSegments(drivingState.network[1]) = {}) =>
       drivingState' = drivingState]_vars

\* C13: stop, from any state, leaves the machine inactive with network,
\* currentSegment and currentSegmentId cleared, and leaves every node,
\* segment and index entry of the built network as it was.
C13_StopClearsReferences ==
  [][Stop =>
       /\ ~drivingState'.isActive
       /\ drivingState'.network = Null
       /\ drivingState'.currentSegment = Null
       /\ drivingState'.currentSegmentId = Null
       /\ connectedNetwork' = connectedNetwork]_vars

\* a drive that had advanced along a segment has been stopped
C13_Witness ==
  /\ notification = "Drive stopped"
  /\ ~drivingState.isActive
  /\ drivingState.network = Null
  /\ drivingState.currentSegment = Null
  /\ drivingState.currentSegmentId = Null
  /\ drivingState.targetNodeId # Null
  /\ drivingState.segmentProgress > 0
  /\ connectedNetwork # Null
  /\ Len(connectedNetwork[1].segments) > 0

\* C14: stop on an inactive machine leaves every field of the driving state
\* as it was, and a second stop leaves the state the first stop produced.
C14_IdempotentStop ==
  [][Stop =>
       /\ ~drivingState.isActive => drivingState' = drivingState
       /\ Stopped(drivingState') = drivingState']_vars

----------------------------------------------------------------------------
(* Two vehicles on one network *)

\* what one call of start, stop, reposition or tick can make of a vehicle,
\* given only that vehicle and the built network
AloneResults(m, built) ==
  RepositionResults(m)
    \cup UNION {UpdateResults(m, deltaTime) : deltaTime \in DeltaTimes}
    \cup {StopResult(m)}
    \cup {StartResult(m, network) : network \in {Null, built}}

\* the network a driving state refers to is the built one, and its current
\* segment is a segment of the built network, carrying the current id
RefersToBuilt(ds, built) ==
  /\ ds.network \in {Null, built}
  /\ ds.currentSegment # Null =>
       /\ built # Null
       /\ ds.currentSegment[1] \in Range(built[1].segments)
       /\ Some(ds.currentSegment[1].id) = ds.currentSegmentId

\* C15: once the network is built no step of either vehicle changes a node,
\* a segment or an index entry of it; a step of one vehicle leaves the other
\* vehicle as it was; both vehicles refer to the network as built; and each
\* step takes a vehicle to a result that one operation yields from that
\* vehicle's own state and the built network alone.
C15_SharedNetwork ==
  [][/\ connectedNetwork # Null => connectedNetwork' = connectedNetwork
     /\ peer' # peer => Machine' = Machine
     /\ Machine' # Machine => peer' = peer
     /\ RefersToBuilt(drivingState', connectedNetwork')
     /\ RefersToBuilt(peer'.drivingState, connectedNetwork')
     /\ Machine' # Machine => Machine' \in AloneResults(Machine, connectedNetwork)
     /\ peer' # peer => peer' \in AloneResults(peer, connectedNetwork)]_vars

\* both vehicles are driving on the built network, on different segments,
\* one having crossed the junction and the other having turned at a dead end
C15_Witness ==
  /\ connectedNetwork # Null
  /\ drivingState.isActive
  /\ peer.drivingState.isActive
  /\ drivingState.network = connectedNetwork
  /\ peer.drivingState.network = connectedNetwork
  /\ drivingState.currentSegmentId # peer.drivingState.currentSegmentId
  /\ notification \in {"Turning onto", "Continuing on"}
  /\ drivingState.direction = -1
  /\ peer.notification = "Turning around on"

----------------------------------------------------------------------------
(* Further properties of the lookup and of built networks *)

\* C16: findNearestNetworkNode returns no node exactly when no node of the
\* network is nearer to the position than maxDistance, also when the index
\* cells it visits hold none; a node it returns is a node of the network
\* nearer than maxDistance; on a network without nodes it returns no node.
C16_NearestCompleteness ==
  query # Null =>
    LET position == query[1].position
        result == query[1].result
        network == connectedNetwork[1]
        maxDistance2 == (query[1].maxDistance * Unit) * (query[1].maxDistance * Unit)
    IN  /\ result = Null <=>
             \A node \in Range(network.nodes) :
               NodeDistance2(position, node) >= maxDistance2
        /\ result # Null =>
             /\ result[1] \in Range(network.nodes)
             /\ NodeDistance2(position, result[1]) < maxDistance2
        /\ Len(network.nodes) = 0 => result = Null

\* a lookup returned a node that lies outside the index cells it visited
C16_Witness ==
  /\ query # Null
  /\ query[1].result # Null
  /\ VisitedKeys(query[1].position, connectedNetwork[1], query[1].maxDistance) = {}
  /\ Abs(MathRound(query[1].result[1].position.x) - MathRound(query[1].position.x))
       > SearchRadius(query[1].maxDistance)

PositionOf(network, nodeId) == NodeWithId(network, nodeId).position

\* C17: no segment of a built network starts and ends at the same node, and
\* none joins two nodes at the same planar position.
C17_NoDegenerateSegment ==
  connectedNetwork # Null =>
    LET network == connectedNetwork[1]
    IN  \A segment \in Range(network.segments) :
          /\ segment.startNodeId # segment.endNodeId
          /\ Distance2(PositionOf(network, segment.startNodeId),
                       PositionOf(network, segment.endNodeId)) > 0

\* the ways of these categories, and no other way, have put nodes and
\* segments into the built network
ContributeExactly(categories) ==
  connectedNetwork # Null =>
    LET network == connectedNetwork[1]
        ways == Range(osmData.ways)
    IN  /\ \A node \in Range(network.nodes) :
             \E way \in ways : /\ way.tags.highway \in categories
                               /\ node.osmNodeId \in Range(way.nodes)
        /\ \A segment \in Range(network.segments) :
             \E way \in ways : /\ way.tags.highway \in categories
                               /\ way.id = segment.osmWayId
        /\ \A way \in ways :
             way.tags.highway \in categories =>
               /\ \A id \in Range(way.nodes) \cap DOMAIN osmData.nodes :
                    \E node \in Range(network.nodes) : node.id = NodeIdOf(id)
               /\ \A i \in 1..(Len(way.nodes) - 1) :
                    ({way.nodes[i], way.nodes[i + 1]} \subseteq DOMAIN osmData.nodes) =>
                      \E segment \in Range(network.segments) :
                        segment.id = SegmentIdOf(way.id, i - 1)
        /\ (\A way \in ways : way.tags.highway \notin categories) =>
             /\ Len(network.nodes) = 0
             /\ Len(network.segments) = 0

\* C18: a way puts nodes and segments into the built network exactly when
\* its highway value is one of primary, secondary, tertiary, residential,
\* unclassified, service, trunk, motorway, primary_link, secondary_link and
\* tertiary_link; when no way has one of these values the network has no
\* nodes and no segments.
C18_CategoryWhitelist == ContributeExactly(roadTypes)

\* an unclassified way has put a segment into the network and a trunk_link
\* way over two known points has put none
C18_Witness ==
  /\ connectedNetwork # Null
  /\ \E segment \in Range(connectedNetwork[1].segments) :
       segment.highway = "unclassified"
  /\ \E way \in Range(osmData.ways) :
       /\ way.tags.highway = "trunk_link"
       /\ Len(way.nodes) = 2
       /\ Range(way.nodes) \subseteq DOMAIN osmData.nodes
       /\ \A segment \in Range(connectedNetwork[1].segments) :
            segment.osmWayId # way.id

\* the categories as the whitelist is described: the seven road classes and
\* the link variant of each class that has one
DescribedCategories ==
  {"primary", "secondary", "tertiary", "residential", "service", "trunk", "motorway",
   "primary_link", "secondary_link", "tertiary_link", "trunk_link", "motorway_link"}

\* C18 as stated: a way contributes exactly when its category is primary,
\* secondary, tertiary, residential, service, trunk, motorway or a link
\* variant of one of them.
C18_DescribedWhitelist == ContributeExactly(DescribedCategories)

----------------------------------------------------------------------------
(* Further properties of the tick *)

\* the step reversed the vehicle on its segment, once
OneReversal ==
  /\ drivingState'.currentSegmentId = drivingState.currentSegmentId
  /\ drivingState'.direction = 0 - drivingState.direction
  /\ drivingState'.targetNodeId = drivingState.lastNodeId
  /\ drivingState'.lastNodeId = drivingState.targetNodeId

\* the step moved the vehicle from the arrived-at node onto one candidate
OneSegmentChange ==
  /\ drivingState'.currentSegment # Null
  /\ drivingState'.currentSegment[1] \in Candidates
  /\ drivingState'.lastNodeId = drivingState.targetNodeId
  /\ drivingState'.targetNodeId =
       Some(OtherEndpoint(drivingState'.currentSegment[1], ArrivedNode.id))

\* C19: a tick that makes progress cross 0 or 1, by however much, resolves
\* one node transition: either one reversal on the current segment or one
\* change to a segment connected to the arrived-at node, and it leaves
\* segmentProgress at an end of the segment, the excess dropped; a tick that
\* does not cross makes no transition.
C19_OneTransitionPerTick ==
  [][\A deltaTime \in DeltaTimes :
       (TickWith(deltaTime) /\ Traversing /\ ArrivedNodeExists) =>
         IF CrossesNode(deltaTime)
         THEN /\ IF Candidates = {} THEN OneReversal ELSE OneSegmentChange
              /\ drivingState'.segmentProgress \in {0, ProgressDen}
              /\ drivingState'.isActive
         ELSE /\ drivingState'.currentSegmentId = drivingState.currentSegmentId
              /\ drivingState'.direction = drivingState.direction
              /\ drivingState'.targetNodeId = drivingState.targetNodeId
              /\ drivingState'.lastNodeId = drivingState.lastNodeId]_vars

\* one tick of 4.5 s at 36 km/h, 45 units of travel, on the single 10-unit
\* segment has been resolved as one reversal at the far node
C19_Witness ==
  /\ osmData = SingleSegment
  /\ drivingState.isActive
  /\ ticks = <<[speed |-> 36, deltaTime |-> 4500]>>
  /\ notification = "Turning around on"
  /\ drivingState.direction = -1
  /\ drivingState.targetNodeId = Some(NodeIdOf(1))
  /\ drivingState.segmentProgress = 0

\* no node transition and no reposition since the drive began, and every
\* tick so far had this deltaTime at the present speed
SteadySinceStart(deltaTime) ==
  /\ notification = "Started driving"
  /\ ticks # TooManyTicks
  /\ \A k \in 1..Len(ticks) :
       ticks[k] = [speed |-> drivingState.speed, deltaTime |-> deltaTime]

\* C20: from the start of a drive, at fixed positive speed and deltaTime and
\* in either direction, a tick registers a node transition exactly when the
\* distance travelled on the segment, this tick included, has reached the
\* segment's length.
C20_TransitionOnArrival ==
  [][\A deltaTime \in DeltaTimes :
       (TickWith(deltaTime) /\ Traversing /\ ArrivedNodeExists
          /\ drivingState.speed > 0 /\ deltaTime > 0
          /\ SteadySinceStart(deltaTime)) =>
         (CrossesNode(deltaTime) <=>
            (Len(ticks) + 1) * drivingState.speed * deltaTime
              >= 360 * drivingState.currentSegment[1].length)]_vars

----------------------------------------------------------------------------
(* A drive that goes on forever *)

\* the frame time of a steady run at this speed, in milliseconds
SteadyDeltaTime(speed) == IF speed = 36 THEN 500 ELSE 4500

\* the slider is set and the drive begun before the run; no stop follows
LiveSetSpeed == ~drivingState.isActive /\ SetSpeed

LiveStart == ~drivingState.isActive /\ Start

\* the render loop goes on calling updateDrivingSystem at a steady frame time
LiveTick ==
  /\ drivingState.isActive
  /\ drivingState.speed > 0
  /\ drivingState.currentSegment # Null =>
       ExactStep(drivingState.speed, drivingState.currentSegment[1].length,
                 SteadyDeltaTime(drivingState.speed))
  /\ TickWith(SteadyDeltaTime(drivingState.speed))

NextLive == LoadRoads \/ LiveSetSpeed \/ LiveStart \/ LiveTick

SpecLive == Init /\ [][NextLive]_vars /\ WF_vars(LiveTick)

\* the camera stands at the node with this OSM id
CameraAtNode(osmNodeId) ==
  /\ connectedNetwork # Null
  /\ \E node \in Range(connectedNetwork[1].nodes) :
       /\ node.osmNodeId = osmNodeId
       /\ controls.camera.position.x = node.position.x
       /\ controls.camera.position.z = node.position.z

\* C21: on the single-segment network, in a drive at a fixed positive speed
\* whose ticks go on forever, the camera comes to each of the two end nodes
\* again and again.
C21_NoStuckVehicle ==
  [](( /\ osmData = SingleSegment
       /\ Traversing
       /\ drivingState.speed > 0) =>
      (<>CameraAtNode(1) /\ <>CameraAtNode(2)))

----------------------------------------------------------------------------
(* Invariants of the driving state *)

\* C22: in every state between calls, after start, reposition and every
\* completed tick, segmentProgress lies in [0,1].
C22_ProgressInRange ==
  /\ drivingState.segmentProgress >= 0
  /\ drivingState.segmentProgress <= ProgressDen

\* a tick took progress below 0 and the node handling left it at 1
C22_Witness ==
  /\ Traversing
  /\ Len(ticks) = 1
  /\ ticks[1].speed > 0
  /\ ticks[1].deltaTime > 0
  /\ notification = "Turning around on"
  /\ drivingState.direction = 1
  /\ drivingState.segmentProgress = ProgressDen

\* squared planar distance from a camera position to the node with this id
CameraToNode2(position, nodeId) ==
  Distance2(position, PositionOf(drivingState.network[1], nodeId[1]))

\* C23: with positive speed and deltaTime, in either direction, a tick
\* without a node transition brings the camera nearer to targetNodeId's
\* position and farther from lastNodeId's, and a tick handles a node
\* transition only when the distance it travels covers what was left to
\* targetNodeId.
C23_PoseMovesTowardTarget ==
  [][\A deltaTime \in DeltaTimes :
       (TickWith(deltaTime) /\ Traversing /\ ArrivedNodeExists
          /\ drivingState.lastNodeId # Null
          /\ drivingState.speed > 0 /\ deltaTime > 0) =>
         IF CrossesNode(deltaTime)
         THEN CameraToNode2(controls.camera.position, drivingState.targetNodeId)
                <= TravelDistance(deltaTime) * TravelDistance(deltaTime)
         ELSE /\ CameraToNode2(controls'.camera.position, drivingState.targetNodeId)
                   < CameraToNode2(controls.camera.position, drivingState.targetNodeId)
              /\ CameraToNode2(controls'.camera.position, drivingState.lastNodeId)
                   > CameraToNode2(controls.camera.position, drivingState.lastNodeId)]_vars

\* C24: whenever the machine is traversing, currentSegment is the segment of
\* its network with id currentSegmentId, lastNodeId and targetNodeId are that
\* segment's two end nodes and nodes of the network, and targetNodeId is the
\* segment's endNodeId when direction is +1 and its startNodeId when
\* direction is -1.
C24_EndpointConsistency ==
  Traversing =>
    LET network == drivingState.network[1]
        segment == drivingState.currentSegment[1]
    IN  /\ segment \in Range(network.segments)
        /\ drivingState.currentSegmentId = Some(segment.id)
        /\ drivingState.direction \in {1, -1}
        /\ drivingState.targetNodeId =
             Some(IF drivingState.direction = 1
                  THEN segment.endNodeId ELSE segment.startNodeId)
        /\ drivingState.lastNodeId =
             Some(IF drivingState.direction = 1
                  THEN segment.startNodeId ELSE segment.endNodeId)
        /\ \E node \in Range(network.nodes) : Some(node.id) = drivingState.targetNodeId
        /\ \E node \in Range(network.nodes) : Some(node.id) = drivingState.lastNodeId

\* the machine was repositioned against a segment's direction and has ticked
\* since, toward the segment's start node
C24_Witness ==
  /\ Traversing
  /\ notification = "Repositioned"
  /\ ticks # <<>>
  /\ drivingState.direction = -1
  /\ drivingState.currentSegment[1].startNodeId # drivingState.currentSegment[1].endNodeId
  /\ drivingState.targetNodeId = Some(drivingState.currentSegment[1].startNodeId)

\* C25: whenever the machine is inactive, its network, currentSegment and
\* currentSegmentId are empty.
C25_InactiveHoldsNoReferences ==
  ~drivingState.isActive =>
    /\ drivingState.network = Null
    /\ drivingState.currentSegment = Null
    /\ drivingState.currentSegmentId = Null

\* C26: a tick with speed 0 or deltaTime 0 leaves currentSegment, direction,
\* lastNodeId, targetNodeId and segmentProgress as they were, in every
\* traversing state.
C26_StationaryObserver ==
  [][\A deltaTime \in DeltaTimes :
       (TickWith(deltaTime) /\ Traversing
          /\ (drivingState.speed = 0 \/ deltaTime = 0)) =>
         /\ drivingState'.currentSegment = drivingState.currentSegment
         /\ drivingState'.currentSegmentId = drivingState.currentSegmentId
         /\ drivingState'.direction = drivingState.direction
         /\ drivingState'.lastNodeId = drivingState.lastNodeId
         /\ drivingState'.targetNodeId = drivingState.targetNodeId
         /\ drivingState'.segmentProgress = drivingState.segmentProgress]_vars

\* C27: start on an active machine, whatever network it is passed, does what
\* stop does: the machine is left inactive with network, currentSegment and
\* currentSegmentId cleared, the camera where it was and every other field
\* as stop leaves it.
C27_StartOnActiveStops ==
  [][\A network \in StartArguments :
       (startGraphDriving(network) /\ drivingState.isActive) =>
         /\ Machine' = StopResult(Machine)
         /\ ~drivingState'.isActive
         /\ drivingState'.network = Null
         /\ drivingState'.currentSegment = Null
         /\ drivingState'.currentSegmentId = Null
         /\ controls'.camera.position = controls.camera.position]_vars

\* a drive that was heading against its segment's direction has been ended
C27_Witness ==
  /\ notification = "Drive stopped"
  /\ ~drivingState.isActive
  /\ drivingState.network = Null
  /\ drivingState.currentSegment = Null
  /\ drivingState.targetNodeId # Null
  /\ drivingState.direction = -1
  /\ controls.orbitControls.enabled
  /\ connectedNetwork # Null

\* how many entries of a list equal a value
Occurrences(list, value) == Cardinality({i \in DOMAIN list : list[i] = value})

RECURSIVE TotalConnections(_, _)
\* the summed lengths of the connection lists of the nodes from position i on
TotalConnections(nodes, i) ==
  IF i > Len(nodes) THEN 0
  ELSE Len(nodes[i].connectedRoads) + TotalConnections(nodes, i + 1)

\* C28: a built network has exactly one segment for every consecutive pair of
\* positions of a retained way whose two ids both have nodes; each segment's id
\* occurs exactly once in its start node's connection list and exactly once in
\* its end node's, in no list twice, and the lists hold twice as many entries
\* as there are segments.
C28_IncidenceBookkeeping ==
  connectedNetwork # Null =>
    LET network == connectedNetwork[1]
        retained == {way \in Range(osmData.ways) : isRoadWay(way)}
    IN  /\ \A way \in retained :
             \A i \in 1..(Len(way.nodes) - 1) :
               (MapGet(network.nodes, NodeIdOf(way.nodes[i])) # Null
                  /\ MapGet(network.nodes, NodeIdOf(way.nodes[i + 1])) # Null) =>
                 Occurrences([k \in DOMAIN network.segments |-> network.segments[k].id],
                             SegmentIdOf(way.id, i - 1)) = 1
        /\ \A segment \in Range(network.segments) :
             /\ Occurrences(NodeWithId(network, segment.startNodeId).connectedRoads,
                            segment.id) = 1
             /\ Occurrences(NodeWithId(network, segment.endNodeId).connectedRoads,
                            segment.id) = 1
        /\ \A node \in Range(network.nodes) :
             \A id \in Range(node.connectedRoads) :
               Occurrences(node.connectedRoads, id) = 1
        /\ TotalConnections(network.nodes, 1) = 2 * Len(network.segments)

\* C29: every node of a built network is in the network's index under the
\* cell of its rounded position, also when several nodes round to one cell.
C29_IndexComplete ==
  connectedNetwork # Null =>
    LET network == connectedNetwork[1]
    IN  \A node \in Range(network.nodes) :
          LET indexKey == IndexKey(node.position.x, node.position.z)
          IN  /\ indexKey \in DOMAIN network.nodeIndex
              /\ network.nodeIndex[indexKey] = node.id

\* v lies between a and b
Between(v, a, b) == Min(a, b) <= v /\ v <= Max(a, b)

\* the camera stands at this node, the car height above it
CameraOverNode(position, network, nodeId) ==
  /\ position.x = PositionOf(network, nodeId).x
  /\ position.z = PositionOf(network, nodeId).z
  /\ position.y = PositionOf(network, nodeId).y + 18

\* C30: on a segment of n >= 2 points, at every progress from 0 to 1 and in
\* either direction, the sampler's index and index + 1 lie within 0..n-1, the
\* sampled position lies between points[index] and points[index+1] on their
\* line, progress 0 samples the end at the node the vehicle comes from and
\* progress 1 the end at its target node.
C30_PoseOnPolyline ==
  (Traversing /\ Len(drivingState.currentSegment[1].points) >= 2) =>
    LET network == drivingState.network[1]
        points == drivingState.currentSegment[1].points
        n == Len(points)
        index == SampleIndex(drivingState)
        position == controls.camera.position
        currentPoint == points[index + 1]
        nextPoint == points[index + 2]
    IN  /\ drivingState.segmentProgress \in 0..ProgressDen
        /\ index \in 0..(n - 1)
        /\ index + 1 \in 0..(n - 1)
        /\ Between(position.x, currentPoint.x, nextPoint.x)
        /\ Between(position.y - 18, currentPoint.y, nextPoint.y)
        /\ Between(position.z, currentPoint.z, nextPoint.z)
        /\ Abs((position.x - currentPoint.x) * (nextPoint.z - currentPoint.z)
                 - (position.z - currentPoint.z) * (nextPoint.x - currentPoint.x))
             <= Abs(nextPoint.x - currentPoint.x) + Abs(nextPoint.z - currentPoint.z)
        /\ drivingState.segmentProgress = 0 =>
             CameraOverNode(position, network, drivingState.lastNodeId[1])
        /\ drivingState.segmentProgress = ProgressDen =>
             CameraOverNode(position, network, drivingState.targetNodeId[1])

\* a vehicle heading against its segment has been sampled at progress 0, at
\* the last pair of points
C30_Witness ==
  /\ Traversing
  /\ drivingState.direction = -1
  /\ drivingState.segmentProgress = 0
  /\ Len(drivingState.currentSegment[1].points) >= 2
  /\ SampleIndex(drivingState) = Len(drivingState.currentSegment[1].points) - 2
  /\ Distance2(PositionOf(drivingState.network[1], drivingState.targetNodeId[1]),
               PositionOf(drivingState.network[1], drivingState.lastNodeId[1])) > 0
  /\ CameraOverNode(controls.camera.position, drivingState.network[1],
                    drivingState.lastNodeId[1])

====
